---- MODULE Spec2Model ----
(***************************************************************************)
(* A model of the ray tracer's geometric kernel: tuple algebra, square     *)
(* matrices with cofactor-expansion inverse, affine transformations, rays  *)
(* and hit selection.                                                      *)
(*                                                                         *)
(* The library is a set of pure functions over value types.  The state of  *)
(* the model is the call being made: the function called, its arguments,   *)
(* the value it returned and whether it panicked.  Every f64 of the source *)
(* is modelled by an exact rational <<numerator, denominator>> with a      *)
(* positive denominator, in lowest terms; NaN and the infinities are not   *)
(* modelled, and no action produces them.                                  *)
(***************************************************************************)
EXTENDS Integers, Sequences, FiniteSets, TLC

VARIABLES call, args, ret, panicked, sphere, canvas, ppm, pc

\* the objects of a scene: the sphere, the canvas, and the PPM writer with
\* the position of the loop that drives it
objects == <<sphere, canvas, ppm, pc>>

vars == <<call, args, ret, panicked, sphere, canvas, ppm, pc>>

(***************************************************************************)
(* Bounds of the model.                                                    *)
(***************************************************************************)
\* intersections per Intersections value
MaxLen == 3
\* |t| of an intersection
MaxT == 2
\* |component| of an input tuple
MaxC == 1
\* |parameter| of a transformation factory
MaxP == 1
\* |value| written into one entry of a seed matrix
MaxV == 2

(***************************************************************************)
(* f64 as exact rationals.                                                 *)
(***************************************************************************)
Abs(n) == IF n < 0 THEN -n ELSE n

RECURSIVE GCD(_, _)
GCD(a, b) == IF b = 0 THEN a ELSE GCD(b, a % b)

\* a value that is not a finite number (a division by zero)
NotFinite == <<0, 0>>

\* the rational n/d in lowest terms with a positive denominator
Rat(n, d) ==
  IF d = 0
    THEN NotFinite
    ELSE LET g == GCD(Abs(n), Abs(d))
             s == IF d < 0 THEN -1 ELSE 1
         IN  <<(s * n) \div g, (s * d) \div g>>

\* an integer literal as f64
R(n) == <<n, 1>>

RAdd(a, b) == Rat(a[1] * b[2] + b[1] * a[2], a[2] * b[2])
RNeg(a) == <<-a[1], a[2]>>
RSub(a, b) == RAdd(a, RNeg(b))
RMul(a, b) == Rat(a[1] * b[1], a[2] * b[2])
RDiv(a, b) == Rat(a[1] * b[2], a[2] * b[1])
RAbs(a) == <<Abs(a[1]), a[2]>>
RLt(a, b) == a[1] * b[2] < b[1] * a[2]
RLe(a, b) == a[1] * b[2] <= b[1] * a[2]
RIsZero(a) == a[1] = 0

\* Option<T> and the outcome of a call that may panic: <<>> or <<value>>
None == <<>>
Some(v) == <<v>>
Panic == <<>>
Ok(v) == <<v>>

EPSILON == <<1, 100000>>

(***************************************************************************)
(* matrices.rs: Matrix<N> is [[f64; N]; N], a tuple of N rows of N         *)
(* entries; the entry the source writes self[row][col] (from 0) is         *)
(* self[row + 1][col + 1] here.                                            *)
(***************************************************************************)
\* an array [f64; N] filled entry by entry, for the sizes in use
Array(N, entry(_)) ==
  CASE N = 1 -> <<entry(0)>>
    [] N = 2 -> <<entry(0), entry(1)>>
    [] N = 3 -> <<entry(0), entry(1), entry(2)>>
    [] N = 4 -> <<entry(0), entry(1), entry(2), entry(3)>>

Array2(N, entry(_, _)) ==
  Array(N, LAMBDA row : Array(N, LAMBDA col : entry(row, col)))

\* Matrix::new
Matrix_new(input) == input

\* an array literal of whole numbers
Whole(input) ==
  Array2(Len(input), LAMBDA row, col : R(input[row + 1][col + 1]))

Size(m) == Len(m)

\* (0..N).fold(0.0, |acc, n| acc + f(n)), left to right
RECURSIVE FoldSum(_, _, _)
FoldSum(f, n, acc) ==
  IF n > Len(f) THEN acc ELSE FoldSum(f, n + 1, RAdd(acc, f[n]))

transpose(self) ==
  Array2(Size(self), LAMBDA j, i : self[i + 1][j + 1])

\* the product with rows taken from other and columns from self
Matrix_mul_swapped(self, other) ==
  LET N == Size(self)
  IN  Array2(N, LAMBDA row, col :
        FoldSum(Array(N, LAMBDA n :
                  RMul(other[row + 1][n + 1], self[n + 1][col + 1])),
                1, R(0)))

\* Mul<Self> for Matrix<N>
Matrix_mul(self, other) ==
  LET N == Size(self)
  IN  Array2(N, LAMBDA row, col :
        FoldSum(Array(N, LAMBDA n :
                  RMul(self[row + 1][n + 1], other[n + 1][col + 1])),
                1, R(0)))

\* PartialEq for Matrix<N>: unequal as soon as one pair differs by more
\* than EPSILON
Matrix_eq(self, other) ==
  \A i \in DOMAIN self : \A j \in DOMAIN self :
     ~ RLt(EPSILON, RAbs(RSub(self[i][j], other[i][j])))

\* the (row, column) pairs of an N x N matrix in iteration order
RowMajor(N) == [k \in 1..(N * N) |-> <<(k - 1) \div N, (k - 1) % N>>]

\* submatrix leaving out column exclude_row and row exclude_column
submatrix_swapped(self, exclude_row, exclude_column) ==
  LET N == Size(self)
      Kept(p) == p[1] # exclude_column /\ p[2] # exclude_row
      kept == SelectSeq(RowMajor(N), Kept)
  IN  Array2(N - 1, LAMBDA row_num, col_num :
        LET p == kept[row_num * (N - 1) + col_num + 1]
        IN  self[p[1] + 1][p[2] + 1])

\* define_methods!: the entries outside the excluded row and column, in
\* iteration order, are written to output[count / (N-1)][count % (N-1)]
submatrix(self, exclude_row, exclude_column) ==
  LET N == Size(self)
      Kept(p) == p[1] # exclude_row /\ p[2] # exclude_column
      kept == SelectSeq(RowMajor(N), Kept)
  IN  Array2(N - 1, LAMBDA row_num, col_num :
        LET p == kept[row_num * (N - 1) + col_num + 1]
        IN  self[p[1] + 1][p[2] + 1])

RECURSIVE determinant(_)

minor(self, exclude_row, exclude_column) ==
  determinant(submatrix(self, exclude_row, exclude_column))

\* the minor, never negated
cofactor_unsigned(self, exclude_row, exclude_column) ==
  minor(self, exclude_row, exclude_column)

cofactor(self, exclude_row, exclude_column) ==
  IF (exclude_row + exclude_column) % 2 = 1
    THEN RNeg(minor(self, exclude_row, exclude_column))
    ELSE minor(self, exclude_row, exclude_column)

\* Matrix<2>::determinant, and define_methods!'s expansion along row 0
determinant(self) ==
  IF Size(self) = 2
    THEN RSub(RMul(self[1][1], self[2][2]), RMul(self[1][2], self[2][1]))
    ELSE FoldSum(Array(Size(self), LAMBDA col :
                   RMul(cofactor(self, 0, col), self[1][col + 1])),
                 1, R(0))

\* inverse writing cofactor(row, col) / determinant to output[row][col]
inverse_untransposed(self) ==
  LET det == determinant(self)
  IN  IF RIsZero(det)
        THEN None
        ELSE Some(Array2(Size(self), LAMBDA row, col :
                    RDiv(cofactor(self, row, col), det)))

\* define_methods!: inverse, for N = 3 and N = 4; cofactor(row, col) /
\* determinant is written to output[col][row]
inverse(self) ==
  LET det == determinant(self)
  IN  IF RIsZero(det)
        THEN None
        ELSE Some(Array2(Size(self), LAMBDA col, row :
                    RDiv(cofactor(self, row, col), det)))

\* Matrix::<4>::identity()
identity ==
  Matrix_new(Whole(<<<<1, 0, 0, 0>>, <<0, 1, 0, 0>>, <<0, 0, 1, 0>>, <<0, 0, 0, 1>>>>))

(***************************************************************************)
(* tuples.rs: Tuple(f64, f64, f64, Kind), modelled as <<x, y, z, kind>>.   *)
(* A call that may panic returns Panic or Ok(value).                       *)
(***************************************************************************)
Kind == {"Vector", "Point", "Color"}

\* Kind + Kind with a Point + Point arm
Kind_add_points(self, other) ==
  CASE self = "Vector" /\ other = "Vector" -> Ok("Vector")
    [] self = "Vector" /\ other = "Point" -> Ok("Point")
    [] self = "Point" /\ other = "Vector" -> Ok("Point")
    [] self = "Point" /\ other = "Point" -> Ok("Point")
    [] self = "Color" /\ other = "Color" -> Ok("Color")
    [] OTHER -> Panic

\* ops::Add for Kind
Kind_add(self, other) ==
  CASE self = "Vector" /\ other = "Vector" -> Ok("Vector")
    [] self = "Vector" /\ other = "Point" -> Ok("Point")
    [] self = "Point" /\ other = "Vector" -> Ok("Point")
    [] self = "Color" /\ other = "Color" -> Ok("Color")
    [] OTHER -> Panic

\* Kind - Kind as the difference of the w components would give it, with
\* Point - Point in the arm of Point - Vector
Kind_sub_point_arm(self, other) ==
  CASE self = "Vector" /\ other = "Vector" -> Ok("Vector")
    [] self = "Point" /\ other = "Vector" -> Ok("Point")
    [] self = "Point" /\ other = "Point" -> Ok("Point")
    [] self = "Color" /\ other = "Color" -> Ok("Color")
    [] OTHER -> Panic

\* ops::Sub for Kind
Kind_sub(self, other) ==
  CASE self = "Point" /\ other = "Point" -> Ok("Vector")
    [] self = "Vector" /\ other = "Vector" -> Ok("Vector")
    [] self = "Point" /\ other = "Vector" -> Ok("Point")
    [] self = "Color" /\ other = "Color" -> Ok("Color")
    [] OTHER -> Panic

new_vector(x, y, z) == <<x, y, z, "Vector">>
new_point(x, y, z) == <<x, y, z, "Point">>
new_color(x, y, z) == <<x, y, z, "Color">>

\* ops::Add for Tuple
Tuple_add(self, other) ==
  LET k == Kind_add(self[4], other[4])
  IN  IF k = Panic
        THEN Panic
        ELSE Ok(<<RAdd(self[1], other[1]), RAdd(self[2], other[2]),
                  RAdd(self[3], other[3]), k[1]>>)

\* ops::Sub for Tuple
Tuple_sub(self, other) ==
  LET k == Kind_sub(self[4], other[4])
  IN  IF k = Panic
        THEN Panic
        ELSE Ok(<<RSub(self[1], other[1]), RSub(self[2], other[2]),
                  RSub(self[3], other[3]), k[1]>>)

\* f64::sqrt, where it is rational
IsSquare(n) == \E k \in 0..n : k * k = n
ISqrt(n) == CHOOSE k \in 0..n : k * k = n
HasSqrt(a) == a[1] >= 0 /\ IsSquare(a[1]) /\ IsSquare(a[2])
RSqrt(a) == <<ISqrt(a[1]), ISqrt(a[2])>>

SquaredMagnitude(self) ==
  RAdd(RAdd(RMul(self[1], self[1]), RMul(self[2], self[2])),
       RMul(self[3], self[3]))

magnitude(self) == RSqrt(SquaredMagnitude(self))

\* defined where the magnitude is rational and not zero
normalize(self) ==
  IF self[4] # "Vector"
    THEN Panic
    ELSE LET m == magnitude(self)
         IN  Ok(new_vector(RDiv(self[1], m), RDiv(self[2], m),
                           RDiv(self[3], m)))

\* dot_product asserting the kind of self only
dot_product_checks_self(self, other) ==
  IF self[4] # "Vector"
    THEN Panic
    ELSE Ok(RAdd(RAdd(RMul(self[1], other[1]), RMul(self[2], other[2])),
                 RMul(self[3], other[3])))

dot_product(self, other) ==
  IF self[4] # "Vector" \/ other[4] # "Vector"
    THEN Panic
    ELSE Ok(RAdd(RAdd(RMul(self[1], other[1]), RMul(self[2], other[2])),
                 RMul(self[3], other[3])))

cross_product(self, other) ==
  IF other[4] # "Vector" \/ self[4] # "Vector"
    THEN Panic
    ELSE Ok(new_vector(
              RSub(RMul(self[2], other[3]), RMul(self[3], other[2])),
              RSub(RMul(self[3], other[1]), RMul(self[1], other[3])),
              RSub(RMul(self[1], other[2]), RMul(self[2], other[1]))))

hadamard_product(self, other) ==
  IF other[4] # "Color" \/ self[4] # "Color"
    THEN Panic
    ELSE Ok(new_color(RMul(self[1], other[1]), RMul(self[2], other[2]),
                      RMul(self[3], other[3])))

(***************************************************************************)
(* The homogeneous tuple Tuple(x, y, z, w) that matrices.rs, rays.rs and   *)
(* spheres.rs use, modelled as <<x, y, z, w>>.                             *)
(***************************************************************************)
\* Tuple::from([f64; 4])
Tuple_from(results) == <<results[1], results[2], results[3], results[4]>>

\* point!(x, y, z) and vector!(x, y, z)
point(x, y, z) == <<x, y, z, R(1)>>
vector(x, y, z) == <<x, y, z, R(0)>>

\* the product that adds the last column whatever w is
Matrix_mul_tuple_ignores_w(self, t) ==
  Tuple_from(Array(4, LAMBDA i :
     RAdd(RAdd(RAdd(RMul(self[i + 1][1], t[1]), RMul(self[i + 1][2], t[2])),
               RMul(self[i + 1][3], t[3])),
          self[i + 1][4])))

\* Mul<Tuple> for Matrix<4>
Matrix_mul_tuple(self, t) ==
  Tuple_from(Array(4, LAMBDA i :
     RAdd(RAdd(RAdd(RMul(self[i + 1][1], t[1]), RMul(self[i + 1][2], t[2])),
               RMul(self[i + 1][3], t[3])),
          RMul(self[i + 1][4], t[4]))))


(***************************************************************************)
(* transformations.rs.  An angle is one of a few named angles whose sine   *)
(* and cosine are rational; Cos and Sin stand for f64::cos and f64::sin.   *)
(***************************************************************************)
Angles == {"0", "pi/2", "pi", "-pi/2", "atan(4/3)"}

Cos(radians) ==
  CASE radians = "0" -> R(1)
    [] radians = "pi/2" -> R(0)
    [] radians = "pi" -> R(-1)
    [] radians = "-pi/2" -> R(0)
    [] radians = "atan(4/3)" -> <<3, 5>>

Sin(radians) ==
  CASE radians = "0" -> R(0)
    [] radians = "pi/2" -> R(1)
    [] radians = "pi" -> R(0)
    [] radians = "-pi/2" -> R(-1)
    [] radians = "atan(4/3)" -> <<4, 5>>

translation(x, y, z) ==
  Matrix_new(<<<<R(1), R(0), R(0), x>>,
         <<R(0), R(1), R(0), y>>,
         <<R(0), R(0), R(1), z>>,
         <<R(0), R(0), R(0), R(1)>>>>)

scaling(x, y, z) ==
  Matrix_new(<<<<x, R(0), R(0), R(0)>>,
         <<R(0), y, R(0), R(0)>>,
         <<R(0), R(0), z, R(0)>>,
         <<R(0), R(0), R(0), R(1)>>>>)

Axis == {"X", "Y", "Z"}

rotation(axis, radians) ==
  CASE axis = "X" ->
         Matrix_new(<<<<R(1), R(0), R(0), R(0)>>,
                <<R(1), Cos(radians), RNeg(Sin(radians)), R(0)>>,
                <<R(1), Sin(radians), Cos(radians), R(0)>>,
                <<R(0), R(0), R(0), R(1)>>>>)
    [] axis = "Y" ->
         Matrix_new(<<<<Cos(radians), R(0), Sin(radians), R(0)>>,
                <<R(0), R(1), R(0), R(0)>>,
                <<RNeg(Sin(radians)), R(0), Cos(radians), R(0)>>,
                <<R(0), R(0), R(0), R(1)>>>>)
    [] axis = "Z" ->
         Matrix_new(<<<<Cos(radians), RNeg(Sin(radians)), R(0), R(0)>>,
                <<Sin(radians), Cos(radians), R(0), R(0)>>,
                <<R(0), R(0), R(1), R(0)>>,
                <<R(0), R(0), R(0), R(1)>>>>)

shearing(x_to_y, x_to_z, y_to_x, y_to_z, z_to_y, z_to_x) ==
  Matrix_new(<<<<R(1), x_to_y, x_to_z, R(0)>>,
         <<y_to_x, R(1), y_to_z, R(0)>>,
         <<z_to_x, z_to_y, R(1), R(0)>>,
         <<R(0), R(0), R(0), R(1)>>>>)

\* shear! handing its arguments to shearing in the order it takes them
shear_in_order(x_to_y, x_to_z, y_to_x, y_to_z, z_to_y, z_to_x) ==
  shearing(x_to_y, x_to_z, y_to_x, y_to_z, z_to_y, z_to_x)

\* shear!: the macro hands its last two arguments to shearing swapped
shear(x_to_y, x_to_z, y_to_x, y_to_z, z_to_y, z_to_x) ==
  shearing(x_to_y, x_to_z, y_to_x, y_to_z, z_to_x, z_to_y)

(***************************************************************************)
(* rays.rs                                                                 *)
(***************************************************************************)
Ray_new(origin, direction) == [origin |-> origin, direction |-> direction]

Ray_transform(self, transform) ==
  [origin |-> Matrix_mul_tuple(transform, self.origin),
   direction |-> Matrix_mul_tuple(transform, self.direction)]

(***************************************************************************)
(* materials.rs, spheres.rs: the values an Intersection carries.           *)
(***************************************************************************)
color(r, g, b) == <<r, g, b, R(0)>>

Material_new ==
  [color |-> color(R(1), R(1), R(1)),
   ambient |-> <<1, 10>>,
   diffuse |-> <<9, 10>>,
   specular |-> <<9, 10>>,
   shininess |-> R(200)]

Sphere_new ==
  [origin |-> <<R(0), R(0), R(0), R(1)>>,
   radius |-> R(1),
   transform |-> identity,
   material |-> Material_new]

(***************************************************************************)
(* intersections.rs: Intersections is a sequence of [t, object].  hit()    *)
(* returns a reference into the sequence, modelled as the position         *)
(* (1-based) of the element referred to.                                   *)
(***************************************************************************)
Intersection_new(t, object) == [t |-> t, object |-> object]

Intersections_from(ts, object) ==
  [i \in 1..Len(ts) |-> Intersection_new(ts[i], object)]

\* the closure without its early return for a negative t
HitStepKeepsNegative(xs, acc, i) ==
  IF acc = None
    THEN Some(i)
    ELSE IF RLt(xs[i].t, xs[acc[1]].t) THEN Some(i) ELSE acc

\* one step of the fold's closure
HitStep(xs, acc, i) ==
  IF RLt(xs[i].t, R(0))
    THEN acc
    ELSE IF acc = None
           THEN Some(i)
           ELSE IF RLt(xs[i].t, xs[acc[1]].t) THEN Some(i) ELSE acc

RECURSIVE HitFold(_, _, _)
HitFold(xs, acc, i) ==
  IF i > Len(xs) THEN acc ELSE HitFold(xs, HitStep(xs, acc, i), i + 1)

hit(xs) == HitFold(xs, None, 1)


(***************************************************************************)
(* The calls.  Initially no call has been made.  The functions are pure:   *)
(* what a call returns depends on its arguments only, so a behaviour makes *)
(* one call, or one chain of calls each made on what the last returned.    *)
(***************************************************************************)
Init ==
  /\ call = "none"
  /\ args = <<>>
  /\ ret = <<>>
  /\ panicked = FALSE
  /\ sphere = Sphere_new
  /\ canvas = <<>>
  /\ ppm = <<>>
  /\ pc = <<>>

(***************************************************************************)
(* Hit selection: an Intersections value is built from a list of t values  *)
(* and a sphere, and hit() is called on it.                                *)
(***************************************************************************)
TVals == {R(n) : n \in (-MaxT)..MaxT}

TLists == UNION {[1..n -> TVals] : n \in 0..MaxLen}

FromCall ==
  /\ call = "none"
  /\ \E ts \in TLists :
       /\ call' = "Intersections::from"
       /\ args' = <<ts, Sphere_new>>
       /\ ret' = Intersections_from(ts, Sphere_new)
       /\ panicked' = FALSE
       /\ UNCHANGED objects

HitCall ==
  /\ call = "Intersections::from"
  /\ call' = "Intersections::hit"
  /\ args' = <<ret>>
  /\ ret' = hit(ret)
  /\ panicked' = FALSE
  /\ UNCHANGED objects

NextHit == FromCall \/ HitCall

SpecHit == Init /\ [][NextHit]_vars

\* C1: hit() returns None exactly when no intersection has a non-negative t
\* (the empty sequence included); otherwise it returns a member whose t is
\* non-negative and no greater than the t of every non-negative member.
HitIsNearestNonNegative ==
  call = "Intersections::hit" =>
    LET xs == args[1]
        NonNeg == {i \in 1..Len(xs) : ~ RLt(xs[i].t, R(0))}
    IN  /\ (ret = None) <=> (NonNeg = {})
        /\ ret # None =>
             /\ ret[1] \in NonNeg
             /\ \A j \in NonNeg : RLe(xs[ret[1]].t, xs[j].t)

\* the {5, 7, -3, 2} shape of test_hit: a negative member, and the hit is
\* neither the first non-negative member nor the first member
HitWitness ==
  /\ call = "Intersections::hit"
  /\ Len(args[1]) = MaxLen
  /\ ret # None
  /\ ret[1] = MaxLen
  /\ \E i \in 1..Len(args[1]) : RLt(args[1][i].t, R(0))
  /\ \E i \in 1..Len(args[1]) : RLt(args[1][ret[1]].t, args[1][i].t)


(***************************************************************************)
(* Tuple algebra of tuples.rs: each call takes operands of every kind.     *)
(***************************************************************************)
Components ==
  {<<R(x), R(y), R(z)>> : x \in (-MaxC)..MaxC, y \in (-MaxC)..MaxC, z \in 0..1}

Tuples == {<<c[1], c[2], c[3], k>> : c \in Components, k \in Kind}

\* a call of a binary operator f on a and b
Binary(name, a, b, result) ==
  /\ call' = name
  /\ args' = <<a, b>>
  /\ ret' = result
  /\ panicked' = (result = Panic)
  /\ UNCHANGED objects

AddCall ==
  /\ call = "none"
  /\ \E a \in Tuples, b \in Tuples : Binary("add", a, b, Tuple_add(a, b))

SubCall ==
  /\ call = "none"
  /\ \E a \in Tuples, b \in Tuples : Binary("sub", a, b, Tuple_sub(a, b))

DotProductCall ==
  /\ call = "none"
  /\ \E a \in Tuples, b \in Tuples :
       Binary("dot_product", a, b, dot_product(a, b))

CrossProductCall ==
  /\ call = "none"
  /\ \E a \in Tuples, b \in Tuples :
       Binary("cross_product", a, b, cross_product(a, b))

HadamardProductCall ==
  /\ call = "none"
  /\ \E a \in Tuples, b \in Tuples :
       Binary("hadamard_product", a, b, hadamard_product(a, b))

\* normalize, on every tuple that is not a vector and on the vectors whose
\* magnitude is rational and not zero
NormalizeCall ==
  /\ call = "none"
  /\ \E a \in Tuples :
       /\ a[4] = "Vector" =>
            /\ HasSqrt(SquaredMagnitude(a))
            /\ ~ RIsZero(SquaredMagnitude(a))
       /\ call' = "normalize"
       /\ args' = <<a>>
       /\ ret' = normalize(a)
       /\ panicked' = (normalize(a) = Panic)
       /\ UNCHANGED objects

NextTuple ==
  \/ AddCall
  \/ SubCall
  \/ DotProductCall
  \/ CrossProductCall
  \/ HadamardProductCall
  \/ NormalizeCall

SpecTuple == Init /\ [][NextTuple]_vars

\* the integer value of an input component
Num(a) == a[1]

Kinds(a, b) == <<a[4], b[4]>>

\* C4: point - point = vector, point - vector = point, vector - vector =
\* vector, vector + vector = vector, vector + point = point + vector =
\* point, and the three components are subtracted or added one by one.
KindOfSumAndDifference ==
  LET a == args[1]
      b == args[2]
  IN  /\ call = "sub" /\ Kinds(a, b) \in {<<"Point", "Point">>,
                                           <<"Vector", "Vector">>} =>
           ret = Ok(<<R(Num(a[1]) - Num(b[1])), R(Num(a[2]) - Num(b[2])),
                      R(Num(a[3]) - Num(b[3])), "Vector">>)
      /\ call = "sub" /\ Kinds(a, b) = <<"Point", "Vector">> =>
           ret = Ok(<<R(Num(a[1]) - Num(b[1])), R(Num(a[2]) - Num(b[2])),
                      R(Num(a[3]) - Num(b[3])), "Point">>)
      /\ call = "add" /\ Kinds(a, b) = <<"Vector", "Vector">> =>
           ret = Ok(<<R(Num(a[1]) + Num(b[1])), R(Num(a[2]) + Num(b[2])),
                      R(Num(a[3]) + Num(b[3])), "Vector">>)
      /\ call = "add" /\ Kinds(a, b) \in {<<"Vector", "Point">>,
                                           <<"Point", "Vector">>} =>
           ret = Ok(<<R(Num(a[1]) + Num(b[1])), R(Num(a[2]) + Num(b[2])),
                      R(Num(a[3]) + Num(b[3])), "Point">>)

\* test_sub's first case: a point minus a different point
PointMinusPointWitness ==
  /\ call = "sub"
  /\ Kinds(args[1], args[2]) = <<"Point", "Point">>
  /\ args[1] # args[2]
  /\ ~ panicked
  /\ ret[1][4] = "Vector"

\* C5: the sum of two points panics and yields no tuple.
PointPlusPointPanics ==
  call = "add" /\ Kinds(args[1], args[2]) = <<"Point", "Point">> =>
    panicked /\ ret = Panic

PointPlusPointWitness ==
  /\ call = "add"
  /\ Kinds(args[1], args[2]) = <<"Point", "Point">>
  /\ panicked

\* C6: normalize of a non-vector, dot_product and cross_product with a
\* non-vector operand and hadamard_product with a non-color operand panic;
\* with operands of the right kind normalize and cross_product return a
\* vector, hadamard_product a color and dot_product a number.
KindMismatchPanics ==
  /\ call = "normalize" =>
       IF args[1][4] = "Vector"
         THEN ~ panicked /\ ret[1][4] = "Vector"
         ELSE panicked /\ ret = Panic
  /\ call \in {"dot_product", "cross_product"} =>
       IF Kinds(args[1], args[2]) = <<"Vector", "Vector">>
         THEN /\ ~ panicked
              /\ call = "cross_product" => ret[1][4] = "Vector"
         ELSE panicked /\ ret = Panic
  /\ call = "hadamard_product" =>
       IF Kinds(args[1], args[2]) = <<"Color", "Color">>
         THEN ~ panicked /\ ret[1][4] = "Color"
         ELSE panicked /\ ret = Panic

\* a dot product whose second operand only is not a vector
KindMismatchWitness ==
  /\ call = "dot_product"
  /\ Kinds(args[1], args[2]) = <<"Vector", "Point">>
  /\ panicked


(***************************************************************************)
(* Matrices: inverse() is called on 3x3 and 4x4 matrices, and on a 4x4     *)
(* matrix the result is unwrapped and multiplied as in test_inverse.  The  *)
(* inputs are a few matrices of small integers, each with one entry        *)
(* replaced by every value of a range.                                     *)
(***************************************************************************)
Seeds3 ==
  {Whole(<<<<1, 0, 0>>, <<0, 1, 0>>, <<0, 0, 1>>>>),
   Whole(<<<<1, 2, 0>>, <<0, 1, 1>>, <<2, 0, 1>>>>),
   Whole(<<<<0, 1, 2>>, <<1, 0, -1>>, <<2, 1, 0>>>>)}

Seeds4 ==
  {identity,
   Whole(<<<<1, 2, 0, 1>>, <<0, 1, 1, 0>>, <<2, 0, 1, 1>>, <<1, 1, 0, 2>>>>),
   Whole(<<<<0, 1, 2, -1>>, <<1, 0, -1, 2>>, <<2, 1, 0, 1>>, <<-1, 2, 1, 0>>>>)}

VariantsOf(s) ==
  {[s EXCEPT ![i][j] = R(v)] :
     i \in DOMAIN s, j \in DOMAIN s, v \in (-MaxV)..MaxV}

Variants(seeds) == UNION {VariantsOf(s) : s \in seeds}

Matrices == Variants(Seeds3) \cup Variants(Seeds4)

InverseCall ==
  /\ call = "none"
  /\ \E m \in Matrices :
       /\ call' = "inverse"
       /\ args' = <<m>>
       /\ ret' = inverse(m)
       /\ panicked' = FALSE
       /\ UNCHANGED objects

\* m * m.inverse().unwrap()
MulInverseCall ==
  /\ call = "inverse"
  /\ Size(args[1]) = 4
  /\ call' = "m * m.inverse().unwrap()"
  /\ args' = args
  /\ ret' = IF ret = None THEN Panic ELSE Ok(Matrix_mul(args[1], ret[1]))
  /\ panicked' = (ret = None)
  /\ UNCHANGED objects

\* c = a * b; c * b.inverse().unwrap()
MulMulInverseCall ==
  /\ call = "inverse"
  /\ Size(args[1]) = 4
  /\ \E a \in Seeds4 :
       /\ call' = "(a * b) * b.inverse().unwrap()"
       /\ args' = <<a, args[1]>>
       /\ ret' = IF ret = None
                   THEN Panic
                   ELSE Ok(Matrix_mul(Matrix_mul(a, args[1]), ret[1]))
       /\ panicked' = (ret = None)
       /\ UNCHANGED objects

NextMatrix == InverseCall \/ MulInverseCall \/ MulMulInverseCall

SpecMatrix == Init /\ [][NextMatrix]_vars

\* the determinant as the sum over the permutations p of 1..N of
\* sign(p) * m[1][p[1]] * ... * m[N][p[N]], summed in groups by p[1]
PermutationsOf(N) ==
  {p \in [1..N -> 1..N] :
     \A i \in 1..N : \A j \in 1..N : i # j => p[i] # p[j]}

Permutations3 == PermutationsOf(3)
Permutations4 == PermutationsOf(4)

Sign(p) ==
  LET inversions ==
        {ij \in (DOMAIN p) \X (DOMAIN p) : ij[1] < ij[2] /\ p[ij[1]] > p[ij[2]]}
  IN  IF Cardinality(inversions) % 2 = 0 THEN 1 ELSE -1

Term(m, p) ==
  LET prod == IF Size(m) = 3
                THEN RMul(RMul(m[1][p[1]], m[2][p[2]]), m[3][p[3]])
                ELSE RMul(RMul(m[1][p[1]], m[2][p[2]]),
                          RMul(m[3][p[3]], m[4][p[4]]))
  IN  RMul(R(Sign(p)), prod)

RECURSIVE SumOver(_, _)
SumOver(m, ps) ==
  IF ps = {}
    THEN R(0)
    ELSE LET p == CHOOSE q \in ps : TRUE
         IN  RAdd(Term(m, p), SumOver(m, ps \ {p}))

LeibnizDeterminant(m) ==
  LET ps == IF Size(m) = 3 THEN Permutations3 ELSE Permutations4
  IN  FoldSum(Array(Size(m), LAMBDA k :
                SumOver(m, {p \in ps : p[1] = k + 1})),
              1, R(0))

\* C2: inverse() of a 3x3 or 4x4 matrix is None exactly when the
\* determinant of the matrix is 0, and Some(matrix) otherwise.
InverseNoneIffSingular ==
  call = "inverse" =>
    ((ret = None) <=> RIsZero(LeibnizDeterminant(args[1])))

\* a 4x4 matrix without a zero row or column that has no inverse
SingularWitness ==
  /\ call = "inverse"
  /\ Size(args[1]) = 4
  /\ ret = None
  /\ \A i \in 1..4 : \E j \in 1..4 : ~ RIsZero(args[1][i][j])
  /\ \A j \in 1..4 : \E i \in 1..4 : ~ RIsZero(args[1][i][j])

\* every pair of entries differs by less than EPSILON
WithinEpsilon(a, b) ==
  \A i \in DOMAIN a : \A j \in DOMAIN a :
     RLt(RAbs(RSub(a[i][j], b[i][j])), EPSILON)

\* C3: for a 4x4 matrix M with a non-zero determinant M * inverse(M) is the
\* identity within epsilon, and (A * B) * inverse(B) is A within epsilon for
\* every A and every B with a non-zero determinant.
InverseIsRightInverse ==
  /\ call = "m * m.inverse().unwrap()"
       /\ ~ RIsZero(LeibnizDeterminant(args[1])) =>
         ~ panicked /\ WithinEpsilon(ret[1], identity)
  /\ call = "(a * b) * b.inverse().unwrap()"
       /\ ~ RIsZero(LeibnizDeterminant(args[2])) =>
         ~ panicked /\ WithinEpsilon(ret[1], args[1])

\* a product with a B that is not symmetric and whose inverse has entries
\* that are not integers, and an A that is not the identity
RightInverseWitness ==
  /\ call = "(a * b) * b.inverse().unwrap()"
  /\ ~ panicked
  /\ args[1] # identity
  /\ args[2] # transpose(args[2])
  /\ Abs(LeibnizDeterminant(args[2])[1]) > 1
  /\ ret[1] = args[1]


(***************************************************************************)
(* Transformations: matrices built by the factories are multiplied with    *)
(* each other and with homogeneous tuples, and a ray is transformed.       *)
(***************************************************************************)
Params == (-MaxP)..MaxP

\* points (w = 1) and vectors (w = 0)
HTuples ==
  {<<R(x), R(y), R(z), R(w)>> :
     x \in (-MaxC)..MaxC, y \in (-MaxC)..MaxC, z \in 0..1, w \in 0..1}

Points == {t \in HTuples : t[4] = R(1)}

SomePoints == {point(R(c), R(2), R(3)) : c \in (-MaxC)..MaxC}

SomeVectors == {vector(R(c), R(2), R(3)) : c \in (-MaxC)..MaxC}

Directions == {t \in HTuples : t[4] = R(0) /\ t[3] = R(1)}

Transforms ==
  {translation(R(p), R(1), R(-1)) : p \in Params}
    \cup {scaling(R(2), R(p), R(1)) : p \in Params}
    \cup {shear(R(p), R(0), R(0), R(1), R(0), R(0)) : p \in Params}
    \cup {rotation(axis, "pi/2") : axis \in Axis}
    \cup {rotation("Z", "atan(4/3)")}

\* the transforms applied first
FirstTransforms ==
  {rotation(axis, "pi/2") : axis \in Axis}
    \cup {rotation("Z", "atan(4/3)"), translation(R(1), R(1), R(-1))}

\* (a * b * c) * p
ComposeCall ==
  /\ call = "none"
  /\ \E a \in Transforms, b \in Transforms, c \in FirstTransforms,
        p \in SomePoints \cup SomeVectors :
       /\ call' = "(a * b * c) * p"
       /\ args' = <<a, b, c, p>>
       /\ ret' = Matrix_mul_tuple(Matrix_mul(Matrix_mul(a, b), c), p)
       /\ panicked' = FALSE
       /\ UNCHANGED objects

\* translation(x, y, z) * t
TranslationCall ==
  /\ call = "none"
  /\ \E x \in Params, y \in Params, z \in Params, t \in HTuples :
       /\ call' = "translation(x, y, z) * t"
       /\ args' = <<x, y, z, t>>
       /\ ret' = Matrix_mul_tuple(translation(R(x), R(y), R(z)), t)
       /\ panicked' = FALSE
       /\ UNCHANGED objects

\* Ray::new(origin, direction).transform(&translation(x, y, z))
RayTransformCall ==
  /\ call = "none"
  /\ \E x \in Params, y \in Params, z \in Params,
        origin \in SomePoints, direction \in Directions :
       /\ call' = "ray.transform(&translation(x, y, z))"
       /\ args' = <<x, y, z, Ray_new(origin, direction)>>
       /\ ret' = Ray_transform(Ray_new(origin, direction),
                               translation(R(x), R(y), R(z)))
       /\ panicked' = FALSE
       /\ UNCHANGED objects

\* rotation(axis, radians) and rotation(axis, radians) * t
RotationCall ==
  /\ call = "none"
  /\ \E axis \in Axis, radians \in Angles, t \in HTuples :
       /\ call' = "rotation(axis, radians) * t"
       /\ args' = <<axis, radians, t>>
       /\ ret' = <<rotation(axis, radians),
                   Matrix_mul_tuple(rotation(axis, radians), t)>>
       /\ panicked' = FALSE
       /\ UNCHANGED objects

\* shear!(a1, a2, a3, a4, a5, a6) * p
ShearCall ==
  /\ call = "none"
  /\ \E a1 \in Params, a2 \in Params, a3 \in Params, a4 \in Params,
        a5 \in Params, a6 \in Params, p \in SomePoints :
       /\ call' = "shear!(a1, a2, a3, a4, a5, a6) * p"
       /\ args' = <<a1, a2, a3, a4, a5, a6, p>>
       /\ ret' = Matrix_mul_tuple(
                   shear(R(a1), R(a2), R(a3), R(a4), R(a5), R(a6)), p)
       /\ panicked' = FALSE
       /\ UNCHANGED objects

NextTransform ==
  \/ ComposeCall
  \/ TranslationCall
  \/ RayTransformCall
  \/ RotationCall
  \/ ShearCall

SpecTransform == Init /\ [][NextTransform]_vars

\* C7: (A * B * C) * p is A * (B * (C * p)): the rightmost matrix of a
\* product is applied to the tuple first.
CompositionIsRightToLeft ==
  call = "(a * b * c) * p" =>
    ret = Matrix_mul_tuple(args[1],
            Matrix_mul_tuple(args[2], Matrix_mul_tuple(args[3], args[4])))

\* three transforms that give another tuple when applied left to right
CompositionWitness ==
  /\ call = "(a * b * c) * p"
  /\ ret # Matrix_mul_tuple(args[3],
             Matrix_mul_tuple(args[2], Matrix_mul_tuple(args[1], args[4])))
  /\ ret # args[4]

\* C8: translation(x, y, z) returns a vector unchanged and adds (x, y, z)
\* to a point, so a ray transformed by a translation has its origin moved
\* and its direction unchanged.
TranslationMovesPointsOnly ==
  /\ call = "translation(x, y, z) * t" =>
       LET t == args[4]
       IN  IF t[4] = R(0)
             THEN ret = t
             ELSE ret = <<R(Num(t[1]) + args[1]), R(Num(t[2]) + args[2]),
                          R(Num(t[3]) + args[3]), R(1)>>
  /\ call = "ray.transform(&translation(x, y, z))" =>
       LET ray == args[4]
       IN  /\ ret.direction = ray.direction
           /\ ret.origin = <<R(Num(ray.origin[1]) + args[1]),
                             R(Num(ray.origin[2]) + args[2]),
                             R(Num(ray.origin[3]) + args[3]), R(1)>>

\* a ray moved by a translation along all three axes
TranslationWitness ==
  /\ call = "ray.transform(&translation(x, y, z))"
  /\ args[1] # 0 /\ args[2] # 0 /\ args[3] # 0
  /\ ret.origin # args[4].origin
  /\ ret.direction = args[4].direction

\* C9: rotation(Axis::X, r) * (x, y, z, w) is
\* (x, y cos r - z sin r, y sin r + z cos r, w), and rotation(axis, 0) is
\* the identity matrix for each axis.
RotationXIsStandard ==
  call = "rotation(axis, radians) * t" =>
    LET t == args[3]
        c == Cos(args[2])
        sn == Sin(args[2])
    IN  /\ args[1] = "X" =>
             ret[2] = <<t[1],
                        RSub(RMul(t[2], c), RMul(t[3], sn)),
                        RAdd(RMul(t[2], sn), RMul(t[3], c)),
                        t[4]>>
        /\ args[2] = "0" => ret[1] = identity

\* C10: shear!(a1, a2, a3, a4, a5, a6) maps the point (x, y, z) to
\* (x + a1*y + a2*z, y + a3*x + a4*z, z + a5*x + a6*y).
ShearMacroMapsPoint ==
  call = "shear!(a1, a2, a3, a4, a5, a6) * p" =>
    LET x == Num(args[7][1])
        y == Num(args[7][2])
        z == Num(args[7][3])
    IN  ret = <<R(x + args[1] * y + args[2] * z),
                R(y + args[3] * x + args[4] * z),
                R(z + args[5] * x + args[6] * y),
                R(1)>>

\* a shear of z only, with different fifth and sixth arguments, of a point
\* whose x and y differ
ShearWitness ==
  /\ call = "shear!(a1, a2, a3, a4, a5, a6) * p"
  /\ args[5] # args[6]
  /\ args[5] # 0
  /\ args[7][1] # args[7][2]
  /\ ret[1] = args[7][1]
  /\ ret[2] = args[7][2]
  /\ ret[3] # args[7][3]



(***************************************************************************)
(* The Tuple of spheres.rs and materials.rs: four floats, w = 1 for a      *)
(* point and w = 0 for a vector or a color.                                *)
(***************************************************************************)
Tuple4_add(self, other) ==
  <<RAdd(self[1], other[1]), RAdd(self[2], other[2]),
    RAdd(self[3], other[3]), RAdd(self[4], other[4])>>

Tuple4_sub(self, other) ==
  <<RSub(self[1], other[1]), RSub(self[2], other[2]),
    RSub(self[3], other[3]), RSub(self[4], other[4])>>

Tuple4_neg(self) == <<RNeg(self[1]), RNeg(self[2]), RNeg(self[3]), RNeg(self[4])>>

\* Tuple * f64
Tuple4_mul(self, k) ==
  <<RMul(self[1], k), RMul(self[2], k), RMul(self[3], k), RMul(self[4], k)>>

Tuple4_dot_product(self, other) ==
  RAdd(RAdd(RMul(self[1], other[1]), RMul(self[2], other[2])),
       RMul(self[3], other[3]))

Tuple4_hadamard_product(self, other) ==
  <<RMul(self[1], other[1]), RMul(self[2], other[2]),
    RMul(self[3], other[3]), RMul(self[4], other[4])>>

Tuple4_squared_magnitude(self) ==
  RAdd(Tuple4_dot_product(self, self), RMul(self[4], self[4]))

\* defined where the magnitude is rational
Tuple4_magnitude(self) == RSqrt(Tuple4_squared_magnitude(self))

Tuple4_normalize(self) ==
  LET m == Tuple4_magnitude(self)
  IN  <<RDiv(self[1], m), RDiv(self[2], m), RDiv(self[3], m), RDiv(self[4], m)>>

Tuple4_reflect(self, normal) ==
  Tuple4_sub(self,
             Tuple4_mul(Tuple4_mul(normal, R(2)), Tuple4_dot_product(self, normal)))

Tuple4_eq(self, other) ==
  \A i \in 1..4 : RLt(RAbs(RSub(self[i], other[i])), EPSILON)

(***************************************************************************)
(* spheres.rs                                                              *)
(***************************************************************************)
\* with the transform compared as well
Sphere_eq_compares_transform(self, other) ==
  /\ Tuple4_eq(self.origin, other.origin)
  /\ RLt(RAbs(RSub(self.radius, other.radius)), EPSILON)
  /\ self.transform = other.transform

Sphere_eq(self, other) ==
  /\ Tuple4_eq(self.origin, other.origin)
  /\ RLt(RAbs(RSub(self.radius, other.radius)), EPSILON)

\* intersections.rs: PartialEq for Intersection
Intersection_eq(self, other) ==
  /\ Sphere_eq(self.object, other.object)
  /\ RLt(RAbs(RSub(self.t, other.t)), EPSILON)

\* the derived PartialEq of Intersections(Vec<Intersection>)
Intersections_eq(self, other) ==
  /\ Len(self) = Len(other)
  /\ \A i \in 1..Len(self) : Intersection_eq(self[i], other[i])

Intersections_empty == <<>>

\* set_transform that builds the sphere anew around the transform
set_transform_new_sphere(self, transform) == [Sphere_new EXCEPT !.transform = transform]

set_transform(self, transform) == [self EXCEPT !.transform = transform]

\* a, b, c and the discriminant of the quadratic that intersect solves for
\* a ray already in object space
Quadratic(self, ray) ==
  LET sphere_to_ray == Tuple4_sub(ray.origin, self.origin)
      a == Tuple4_dot_product(ray.direction, ray.direction)
      b == RMul(R(2), Tuple4_dot_product(ray.direction, sphere_to_ray))
      c == RSub(Tuple4_dot_product(sphere_to_ray, sphere_to_ray), R(1))
  IN  [a |-> a, b |-> b, c |-> c,
       discriminant |-> RSub(RMul(b, b), RMul(RMul(R(4), a), c))]

\* what intersect returns once the ray is in object space
Roots(self, ray) ==
  LET q == Quadratic(self, ray)
      root == RSqrt(q.discriminant)
      t1 == RDiv(RSub(RNeg(q.b), root), RMul(R(2), q.a))
      t2 == RDiv(RAdd(RNeg(q.b), root), RMul(R(2), q.a))
      diff == RSub(t1, t2)
  IN  IF RLt(q.discriminant, R(0))
        THEN Intersections_empty
        ELSE IF RLt(RAbs(diff), EPSILON)
               THEN Intersections_from(<<t1>>, self)
               ELSE IF RLt(diff, R(0))
                      THEN Intersections_from(<<t1, t2>>, self)
                      ELSE Intersections_from(<<t2, t1>>, self)

\* intersect with the tangent case returned as two equal roots
Sphere_intersect_never_merges(self, ray) ==
  LET inv == inverse(self.transform)
      q == Quadratic(self, Ray_transform(ray, inv[1]))
      root == RSqrt(q.discriminant)
  IN  IF inv = None
        THEN Panic
        ELSE IF RLt(q.discriminant, R(0))
               THEN Ok(Intersections_empty)
               ELSE Ok(Intersections_from(
                      <<RDiv(RSub(RNeg(q.b), root), RMul(R(2), q.a)),
                        RDiv(RAdd(RNeg(q.b), root), RMul(R(2), q.a))>>, self))

\* intersect with the ray left in world space
Sphere_intersect_world_ray(self, ray) ==
  IF inverse(self.transform) = None THEN Panic ELSE Ok(Roots(self, ray))

\* intersect with unwrap_or(identity) in place of unwrap
Sphere_intersect_falls_back(self, ray) ==
  LET inv == inverse(self.transform)
  IN  IF inv = None
        THEN Ok(Roots(self, ray))
        ELSE Ok(Roots(self, Ray_transform(ray, inv[1])))

\* Option::unwrap panics on None
Sphere_intersect(self, ray) ==
  LET inv == inverse(self.transform)
  IN  IF inv = None
        THEN Panic
        ELSE Ok(Roots(self, Ray_transform(ray, inv[1])))

normal_at(self, world_point) ==
  LET inv == inverse(self.transform)
  IN  IF inv = None
        THEN Panic
        ELSE LET object_point == Matrix_mul_tuple(inv[1], world_point)
                 object_normal == Tuple4_sub(object_point, self.origin)
                 world_normal == Matrix_mul_tuple(transpose(inv[1]), object_normal)
                 zeroed == <<world_normal[1], world_normal[2], world_normal[3], R(0)>>
             IN  Ok(Tuple4_normalize(zeroed))


(***************************************************************************)
(* A sphere of a scene: it is set up (set_transform, a new material        *)
(* color), then rays are intersected with it and normals are taken.        *)
(***************************************************************************)
MaxK == 2
MaxY == 2
MaxD == 5

\* uniform scalings (singular for k = 0), a translation, a non-uniform
\* scaling and a shearing
SphereTransforms ==
  {scaling(R(k), R(k), R(k)) : k \in 0..MaxK}
    \cup {translation(R(0), R(1), R(0)),
          scaling(R(1), <<1, 2>>, R(1)),
          shearing(R(1), R(0), R(0), R(0), R(0), R(0))}

MaterialColors == {color(<<1, 10>>, R(1), <<1, 10>>)}

RayDirections ==
  {vector(R(0), R(0), R(1)), vector(R(0), R(0), R(-1)),
   vector(R(0), R(0), R(2)), vector(R(0), R(1), R(0))}

Rays ==
  {Ray_new(point(R(0), R(y), R(z)), d) :
     y \in 0..MaxY, z \in (-MaxD)..MaxD, d \in RayDirections}

WorldPoints ==
  {point(R(x), R(y), R(z)) : x \in -MaxP..MaxP, y \in -MaxP..MaxP, z \in -MaxP..MaxP}

\* the differences of t an equality test is made with
Deltas == {R(0), <<1, 200000>>, EPSILON}

SetupCalls == {"none", "set_transform", "material.color ="}

\* the square root intersect takes is rational; inv is the inverse of the
\* sphere's transform
HasRationalRoots(self, inv, ray) ==
  IF inv = None
    THEN TRUE
    ELSE LET d == Quadratic(self, Ray_transform(ray, inv[1])).discriminant
         IN  RLt(d, R(0)) \/ HasSqrt(d)

\* the magnitude normal_at divides by is rational
HasRationalNormal(self, inv, world_point) ==
  IF inv = None
    THEN TRUE
    ELSE LET n == Matrix_mul_tuple(transpose(inv[1]),
                    Tuple4_sub(Matrix_mul_tuple(inv[1], world_point), self.origin))
         IN  HasSqrt(Tuple4_squared_magnitude(<<n[1], n[2], n[3], R(0)>>))

SetTransformCall ==
  /\ call \in SetupCalls
  /\ \E m \in SphereTransforms :
       /\ call' = "set_transform"
       /\ args' = <<m>>
       /\ ret' = <<>>
       /\ panicked' = FALSE
       /\ sphere' = set_transform(sphere, m)
       /\ UNCHANGED <<canvas, ppm, pc>>

\* main.rs: sphere.material.color = color!(...)
SetMaterialColor ==
  /\ call \in SetupCalls
  /\ \E c \in MaterialColors :
       /\ call' = "material.color ="
       /\ args' = <<c>>
       /\ ret' = <<>>
       /\ panicked' = FALSE
       /\ sphere' = [sphere EXCEPT !.material.color = c]
       /\ UNCHANGED <<canvas, ppm, pc>>

IntersectCall ==
  /\ call \in SetupCalls
  /\ LET inv == inverse(sphere.transform)
     IN  \E ray \in Rays :
           /\ HasRationalRoots(sphere, inv, ray)
           /\ call' = "intersect"
           /\ args' = <<ray>>
           /\ ret' = Sphere_intersect(sphere, ray)
           /\ panicked' = (ret' = Panic)
           /\ UNCHANGED objects

NormalAtCall ==
  /\ call \in SetupCalls
  /\ LET inv == inverse(sphere.transform)
     IN  \E p \in WorldPoints :
           /\ HasRationalNormal(sphere, inv, p)
           /\ call' = "normal_at"
           /\ args' = <<p>>
           /\ ret' = normal_at(sphere, p)
           /\ panicked' = (ret' = Panic)
           /\ UNCHANGED objects

\* assert_eq!(sphere, Sphere::new())
SphereEqCall ==
  /\ call \in SetupCalls
  /\ call' = "sphere =="
  /\ args' = <<sphere, Sphere_new>>
  /\ ret' = Sphere_eq(sphere, Sphere_new)
  /\ panicked' = FALSE
  /\ UNCHANGED objects

\* what intersect returned is compared with intersections of a new sphere
\* at the same t values moved by delta
IntersectionsEqCall ==
  /\ call = "intersect"
  /\ ~panicked
  /\ \E delta \in Deltas :
       LET xs == ret[1]
           other == Intersections_from(
                      [i \in 1..Len(xs) |-> RAdd(xs[i].t, delta)], Sphere_new)
       IN  /\ call' = "intersections =="
           /\ args' = <<xs, other>>
           /\ ret' = Intersections_eq(xs, other)
           /\ panicked' = FALSE
           /\ UNCHANGED objects

NextSphere ==
  \/ SetTransformCall
  \/ SetMaterialColor
  \/ IntersectCall
  \/ NormalAtCall
  \/ SphereEqCall
  \/ IntersectionsEqCall

SpecSphere == Init /\ [][NextSphere]_vars

\* t is a root of the quadratic q
IsRoot(q, t) ==
  RIsZero(RAdd(RAdd(RMul(q.a, RMul(t, t)), RMul(q.b, t)), q.c))

\* C11: intersect returns no intersection when the discriminant is
\* negative, one when the two roots differ by less than epsilon, and
\* otherwise the two roots with the smaller first; each is a root of the
\* quadratic of the ray in object space, negative or not, and each refers
\* to the sphere that was intersected.
IntersectReturnsTheRoots ==
  (call = "intersect" /\ ~panicked) =>
    LET inv == inverse(sphere.transform)
        xs == ret[1]
    IN  /\ inv # None
        /\ LET q == Quadratic(sphere, Ray_transform(args[1], inv[1]))
               \* the other root, by the sum of the roots
               OtherRoot(t) == RSub(RNeg(RDiv(q.b, q.a)), t)
           IN  /\ \A i \in 1..Len(xs) :
                    xs[i].object = sphere /\ IsRoot(q, xs[i].t)
               /\ RLt(q.discriminant, R(0)) <=> Len(xs) = 0
               /\ Len(xs) \in 0..2
               /\ Len(xs) = 1 =>
                    RLt(RAbs(RSub(OtherRoot(xs[1].t), xs[1].t)), EPSILON)
               /\ Len(xs) = 2 =>
                    /\ RLt(xs[1].t, xs[2].t)
                    /\ ~ RLt(RAbs(RSub(xs[1].t, xs[2].t)), EPSILON)

IntersectWitness ==
  /\ call = "intersect"
  /\ ~panicked
  /\ sphere.transform # identity
  /\ Len(ret[1]) = 2
  /\ RLt(ret[1][1].t, R(0))
  /\ RLt(R(0), ret[1][2].t)

\* C12: a sphere scaled by k in every axis, k > 0, met by the ray from
\* (0, 0, -d) along (0, 0, 1) with d > k, is intersected at t = d - k and
\* t = d + k, parameters of the ray as it was given.
ScaledSphereIsHitAtRayParameters ==
  \A k \in 1..MaxK, d \in 1..MaxD :
    ( /\ call = "intersect"
      /\ d > k
      /\ sphere.transform = scaling(R(k), R(k), R(k))
      /\ args[1] = Ray_new(point(R(0), R(0), R(-d)), vector(R(0), R(0), R(1))) )
    => ret = Ok(Intersections_from(<<R(d - k), R(d + k)>>, sphere))

ScaledSphereWitness ==
  /\ call = "intersect"
  /\ sphere.transform = scaling(R(2), R(2), R(2))
  /\ args[1] = Ray_new(point(R(0), R(0), R(-5)), vector(R(0), R(0), R(1)))
  /\ Len(ret[1]) = 2
  /\ ret[1][1].t = R(3)
  /\ ret[1][2].t = R(7)

\* C13: set_transform accepts any matrix, and while the sphere's transform
\* has determinant 0 every intersect and every normal_at panics and returns
\* nothing.
SingularTransformFails ==
  /\ call = "set_transform" => (~panicked /\ sphere.transform = args[1])
  /\ (call \in {"intersect", "normal_at"}
        /\ RIsZero(LeibnizDeterminant(sphere.transform)))
       => (panicked /\ ret = Panic)

SingularTransformWitness ==
  /\ call = "intersect"
  /\ RIsZero(LeibnizDeterminant(sphere.transform))
  /\ panicked

\* C14: whatever transform and material color the sphere was given, it
\* equals a new sphere, and intersections whose t values are within epsilon
\* are equal though their spheres differ in transform or material.
EqualityIgnoresTransformAndMaterial ==
  /\ call = "sphere ==" => ret = TRUE
  /\ call = "intersections ==" =>
       ( (\A i \in 1..Len(args[1]) :
            RLt(RAbs(RSub(args[1][i].t, args[2][i].t)), EPSILON))
         <=> ret = TRUE )

EqualityWitness ==
  /\ call = "intersections =="
  /\ ret = TRUE
  /\ Len(args[1]) = 2
  /\ args[1][1].object.transform # args[2][1].object.transform
  /\ args[1][1].object.material # args[2][1].object.material
  /\ args[1][1].t # args[2][1].t


(***************************************************************************)
(* lights.rs, materials.rs                                                 *)
(***************************************************************************)
PointLight_new(position, intensity) == [intensity |-> intensity, position |-> position]

\* f64::powf for an exponent that is a whole number
powf(a, e) == <<a[1] ^ e[1], a[2] ^ e[1]>>

\* lighting with reflect_dot_eye left unnegated
lighting_without_negation(self, light, position, eyev, normalv) ==
  LET effective_color == Tuple4_hadamard_product(self.color, light.intensity)
      lightv == Tuple4_normalize(Tuple4_sub(light.position, position))
      ambient == Tuple4_mul(effective_color, self.ambient)
      light_dot_normal == Tuple4_dot_product(lightv, normalv)
      diffuse == Tuple4_mul(Tuple4_mul(effective_color, self.diffuse), light_dot_normal)
      reflect_dot_eye == Tuple4_dot_product(Tuple4_reflect(lightv, normalv), eyev)
  IN  IF RLt(light_dot_normal, R(0))
        THEN ambient
        ELSE IF RLe(reflect_dot_eye, R(0))
               THEN Tuple4_add(ambient, diffuse)
               ELSE Tuple4_add(Tuple4_add(ambient, diffuse),
                      Tuple4_mul(Tuple4_mul(light.intensity, self.specular),
                                 powf(reflect_dot_eye, self.shininess)))

\* lighting without the test of light_dot_normal
lighting_from_behind(self, light, position, eyev, normalv) ==
  LET effective_color == Tuple4_hadamard_product(self.color, light.intensity)
      lightv == Tuple4_normalize(Tuple4_sub(light.position, position))
      ambient == Tuple4_mul(effective_color, self.ambient)
      light_dot_normal == Tuple4_dot_product(lightv, normalv)
  IN  Tuple4_add(ambient,
        Tuple4_mul(Tuple4_mul(effective_color, self.diffuse), light_dot_normal))

lighting(self, light, position, eyev, normalv) ==
  LET effective_color == Tuple4_hadamard_product(self.color, light.intensity)
      lightv == Tuple4_normalize(Tuple4_sub(light.position, position))
      ambient == Tuple4_mul(effective_color, self.ambient)
      light_dot_normal == Tuple4_dot_product(lightv, normalv)
      black == color(R(0), R(0), R(0))
      diffuse == Tuple4_mul(Tuple4_mul(effective_color, self.diffuse), light_dot_normal)
      reflect_dot_eye ==
        RNeg(Tuple4_dot_product(Tuple4_reflect(lightv, normalv), eyev))
      specular == Tuple4_mul(Tuple4_mul(light.intensity, self.specular),
                             powf(reflect_dot_eye, self.shininess))
  IN  IF RLt(light_dot_normal, R(0))
        THEN Tuple4_add(Tuple4_add(ambient, black), black)
        ELSE IF RLe(reflect_dot_eye, R(0))
               THEN Tuple4_add(Tuple4_add(ambient, diffuse), black)
               ELSE Tuple4_add(Tuple4_add(ambient, diffuse), specular)

(***************************************************************************)
(* Lighting: a material is lit by a point light at a position, seen along  *)
(* an eye vector, with a surface normal.                                   *)
(***************************************************************************)
MaxShininess == 2

Materials ==
  {[Material_new EXCEPT !.color = c, !.shininess = R(s)] :
     c \in {color(R(1), R(1), R(1)), color(<<1, 10>>, R(1), <<1, 10>>)},
     s \in (1..MaxShininess) \cup {200}}

Lights ==
  {PointLight_new(p, i) :
     p \in {point(R(0), R(0), R(-10)), point(R(0), R(0), R(10)),
            point(R(0), R(3), R(-4)), point(R(0), R(-3), R(4)),
            point(R(0), R(10), R(-10))},
     i \in {color(R(1), R(1), R(1)), color(R(1), <<1, 2>>, R(0))}}

Eyes ==
  {vector(R(0), R(0), R(-1)), vector(R(0), R(0), R(1)),
   vector(R(0), <<3, 5>>, <<-4, 5>>), vector(R(0), <<-3, 5>>, <<-4, 5>>)}

Normals == {vector(R(0), R(0), R(-1)), vector(R(0), R(0), R(1)), vector(R(0), R(1), R(0))}

LitPoints == {point(R(0), R(0), R(0)), point(R(0), R(0), R(-1))}

\* the light vector's length is rational, and so is the power taken of
\* reflect_dot_eye
HasRationalLighting(self, light, position, eyev, normalv) ==
  LET to_light == Tuple4_sub(light.position, position)
  IN  /\ HasSqrt(Tuple4_squared_magnitude(to_light))
      /\ \/ self.shininess[1] <= MaxShininess
         \/ LET lightv == Tuple4_normalize(to_light)
                r == Tuple4_dot_product(Tuple4_reflect(lightv, normalv), eyev)
            IN  RLe(R(0), r) \/ r = R(-1)

LightingCall ==
  /\ call = "none"
  /\ \E material \in Materials, light \in Lights, position \in LitPoints,
        eyev \in Eyes, normalv \in Normals :
       /\ HasRationalLighting(material, light, position, eyev, normalv)
       /\ call' = "lighting"
       /\ args' = <<material, light, position, eyev, normalv>>
       /\ ret' = lighting(material, light, position, eyev, normalv)
       /\ panicked' = FALSE
       /\ UNCHANGED objects

NextLighting == LightingCall

SpecLighting == Init /\ [][NextLighting]_vars

\* the light vector of a "lighting" call
LightVector == Tuple4_normalize(Tuple4_sub(args[2].position, args[3]))

\* material.color (*) light.intensity, times k
Lit(k) ==
  <<RMul(RMul(args[1].color[1], args[2].intensity[1]), k),
    RMul(RMul(args[1].color[2], args[2].intensity[2]), k),
    RMul(RMul(args[1].color[3], args[2].intensity[3]), k),
    R(0)>>

\* C15: when the light vector and the normal have a negative dot product,
\* lighting returns the ambient term, the material's color times the
\* light's intensity times material.ambient, whatever the eye vector.
FarSideIsAmbientOnly ==
  (call = "lighting" /\ RLt(Tuple4_dot_product(LightVector, args[5]), R(0)))
    => ret = Lit(args[1].ambient)

FarSideWitness ==
  /\ call = "lighting"
  /\ RLt(Tuple4_dot_product(LightVector, args[5]), R(0))
  /\ args[4] = vector(R(0), R(0), R(-1))
  /\ args[5] = vector(R(0), R(0), R(-1))
  /\ args[2].position = point(R(0), R(0), R(10))
  /\ ret = color(<<1, 10>>, <<1, 10>>, <<1, 10>>)

\* C17: the negated dot product lighting compares with 0 is the dot
\* product of the eye vector with the reflection of the negated light
\* vector; on the lit side, the result is ambient plus diffuse when that
\* quantity is <= 0, and otherwise ambient plus diffuse plus
\* light.intensity * material.specular * quantity ^ shininess, unclamped.
SpecularIsOfReflectedNegatedLight ==
  call = "lighting" =>
    LET light_dot_normal == Tuple4_dot_product(LightVector, args[5])
        specified ==
          Tuple4_dot_product(Tuple4_reflect(Tuple4_neg(LightVector), args[5]), args[4])
        computed ==
          RNeg(Tuple4_dot_product(Tuple4_reflect(LightVector, args[5]), args[4]))
        ambient_diffuse ==
          Tuple4_add(Lit(args[1].ambient), Lit(RMul(args[1].diffuse, light_dot_normal)))
        factor == RMul(args[1].specular, powf(specified, args[1].shininess))
        specular == <<RMul(args[2].intensity[1], factor),
                      RMul(args[2].intensity[2], factor),
                      RMul(args[2].intensity[3], factor), R(0)>>
    IN  /\ computed = specified
        /\ (~ RLt(light_dot_normal, R(0)) /\ RLe(specified, R(0)))
             => ret = ambient_diffuse
        /\ (~ RLt(light_dot_normal, R(0)) /\ ~ RLe(specified, R(0)))
             => ret = Tuple4_add(ambient_diffuse, specular)

SpecularWitness ==
  /\ call = "lighting"
  /\ args[1] = Material_new
  /\ args[2] = PointLight_new(point(R(0), R(0), R(-10)), color(R(1), R(1), R(1)))
  /\ args[4] = vector(R(0), R(0), R(-1))
  /\ args[5] = vector(R(0), R(0), R(-1))
  /\ ret = color(<<19, 10>>, <<19, 10>>, <<19, 10>>)


(***************************************************************************)
(* tuples.rs: PartialEq for Tuple                                          *)
(***************************************************************************)
Tuple_eq(self, other) ==
  /\ RLt(RAbs(RSub(self[1], other[1])), EPSILON)
  /\ RLt(RAbs(RSub(self[2], other[2])), EPSILON)
  /\ RLt(RAbs(RSub(self[3], other[3])), EPSILON)
  /\ self[4] = other[4]

(***************************************************************************)
(* Equality: a matrix, or a tuple, is compared with a copy in which one    *)
(* component is moved by delta.                                            *)
(***************************************************************************)
MaxHalves == 3

\* multiples of epsilon / 2, so epsilon itself is among them
EqDeltas == {Rat(h, 200000) : h \in (-MaxHalves)..MaxHalves}

MatrixEqCall ==
  /\ call = "none"
  /\ \E m \in Seeds3 \cup Seeds4 :
       \E i \in DOMAIN m, j \in DOMAIN m, delta \in EqDeltas :
         LET other == [m EXCEPT ![i][j] = RAdd(m[i][j], delta)]
         IN  /\ call' = "Matrix =="
             /\ args' = <<m, other>>
             /\ ret' = Matrix_eq(m, other)
             /\ panicked' = FALSE
             /\ UNCHANGED objects

TupleEqCall ==
  /\ call = "none"
  /\ \E t \in Tuples, i \in 1..3, delta \in EqDeltas, kind \in Kind :
       LET other == [[t EXCEPT ![i] = RAdd(t[i], delta)] EXCEPT ![4] = kind]
       IN  /\ call' = "Tuple =="
           /\ args' = <<t, other>>
           /\ ret' = Tuple_eq(t, other)
           /\ panicked' = FALSE
           /\ UNCHANGED objects

NextEquality == MatrixEqCall \/ TupleEqCall

SpecEquality == Init /\ [][NextEquality]_vars

\* C16: two matrices are equal exactly when every pair of corresponding
\* entries differs by strictly less than epsilon, the criterion by which
\* two tuples of one kind are equal; a difference of exactly epsilon makes
\* the matrices unequal, as it makes the tuples unequal.
MatrixEqIsStrictLikeTupleEq ==
  /\ call = "Tuple ==" =>
       ( ret = TRUE <=>
           /\ args[1][4] = args[2][4]
           /\ \A i \in 1..3 :
                RLt(RAbs(RSub(args[1][i], args[2][i])), EPSILON) )
  /\ call = "Matrix ==" =>
       ( ret = TRUE <=>
           \A i \in DOMAIN args[1], j \in DOMAIN args[1] :
             RLt(RAbs(RSub(args[1][i][j], args[2][i][j])), EPSILON) )


(***************************************************************************)
(* Determinants: determinant, submatrix, minor and cofactor are called on  *)
(* 3x3 and 4x4 matrices.                                                   *)
(***************************************************************************)
DeterminantCall ==
  /\ call = "none"
  /\ \E m \in Matrices :
       /\ call' = "determinant"
       /\ args' = <<m>>
       /\ ret' = determinant(m)
       /\ panicked' = FALSE
       /\ UNCHANGED objects

\* a call of submatrix, minor or cofactor with a row and a column
Excluding(name, m, r, c, result) ==
  /\ call' = name
  /\ args' = <<m, r, c>>
  /\ ret' = result
  /\ panicked' = FALSE
  /\ UNCHANGED objects

SubmatrixCall ==
  /\ call = "none"
  /\ \E m \in Matrices :
       \E r \in 0..(Size(m) - 1), c \in 0..(Size(m) - 1) :
         Excluding("submatrix", m, r, c, submatrix(m, r, c))

MinorCall ==
  /\ call = "none"
  /\ \E m \in Matrices :
       \E r \in 0..(Size(m) - 1), c \in 0..(Size(m) - 1) :
         Excluding("minor", m, r, c, minor(m, r, c))

CofactorCall ==
  /\ call = "none"
  /\ \E m \in Matrices :
       \E r \in 0..(Size(m) - 1), c \in 0..(Size(m) - 1) :
         Excluding("cofactor", m, r, c, cofactor(m, r, c))

NextDeterminant == DeterminantCall \/ SubmatrixCall \/ MinorCall \/ CofactorCall

SpecDeterminant == Init /\ [][NextDeterminant]_vars

\* m with row r and column c (from 0) deleted, the other entries in place
Deleted(m, r, c) ==
  Array2(Size(m) - 1, LAMBDA i, j :
    m[IF i < r THEN i + 1 ELSE i + 2][IF j < c THEN j + 1 ELSE j + 2])

\* the permutation sum, which for a 2x2 matrix is its two terms
ReferenceDeterminant(m) ==
  IF Size(m) = 2
    THEN RAdd(RMul(m[1][1], m[2][2]), RNeg(RMul(m[1][2], m[2][1])))
    ELSE LeibnizDeterminant(m)

\* C18: determinant() of a 3x3 or 4x4 matrix is the permutation-sum
\* determinant; submatrix(r, c) is the matrix without row r and column c,
\* the other entries in their order; minor(r, c) is its determinant, and
\* cofactor(r, c) is the minor, negated exactly when r + c is odd.
DeterminantIsPermutationSum ==
  /\ call = "determinant" => ret = LeibnizDeterminant(args[1])
  /\ call = "submatrix" => ret = Deleted(args[1], args[2], args[3])
  /\ call = "minor" =>
       ret = ReferenceDeterminant(Deleted(args[1], args[2], args[3]))
  /\ call = "cofactor" =>
       LET d == ReferenceDeterminant(Deleted(args[1], args[2], args[3]))
       IN  ret = IF (args[2] + args[3]) % 2 = 1 THEN RNeg(d) ELSE d

\* a 4x4 matrix whose row 0 has no zero entry and whose determinant is not 0
DeterminantWitness ==
  /\ call = "determinant"
  /\ Size(args[1]) = 4
  /\ ~ RIsZero(ret)
  /\ \A j \in 1..4 : ~ RIsZero(args[1][1][j])


(***************************************************************************)
(* canvas.rs: the text written is a sequence of characters.                *)
(***************************************************************************)
Digit(k) == <<"0", "1", "2", "3", "4", "5", "6", "7", "8", "9">>[k + 1]

\* usize::to_string and convert::u8_to_str: the decimal digits of n
RECURSIVE to_string(_)
to_string(n) ==
  IF n < 10 THEN <<Digit(n)>> ELSE Append(to_string(n \div 10), Digit(n % 10))

u8_to_str(n) == to_string(n)

\* f64::round of a value that is not negative: halves are rounded up
round(a) == (2 * a[1] + a[2]) \div (2 * a[2])

clamp_value(value) ==
  IF RLt(value, R(0))
    THEN <<"0">>
    ELSE IF RLt(R(1), value)
           THEN <<"2", "5", "5">>
           ELSE u8_to_str(round(RMul(value, R(255))))

\* PPM::new writes the header to the buffer
PPM_new(width, height, buffer) ==
  [buffer |-> buffer \o <<"P", "3", "\n">> \o to_string(width) \o <<" ">>
                \o to_string(height) \o <<"\n">> \o <<"2", "5", "5", "\n">>,
   current_line_len |-> 0]

PPM_new_line(self) ==
  [buffer |-> Append(self.buffer, "\n"), current_line_len |-> 0]

\* write breaking the line only once it is longer than 70
PPM_write_breaks_late(self, value) ==
  LET spaced == IF self.current_line_len > 70
                  THEN PPM_new_line(self)
                  ELSE IF self.current_line_len # 0
                         THEN [buffer |-> Append(self.buffer, " "),
                               current_line_len |-> self.current_line_len + 1]
                         ELSE self
  IN  [buffer |-> spaced.buffer \o value,
       current_line_len |-> spaced.current_line_len + Len(value)]

\* Write::write for PPM
PPM_write(self, value) ==
  LET spaced == IF self.current_line_len + Len(value) + 2 > 70
                  THEN PPM_new_line(self)
                  ELSE IF self.current_line_len # 0
                         THEN [buffer |-> Append(self.buffer, " "),
                               current_line_len |-> self.current_line_len + 1]
                         ELSE self
  IN  [buffer |-> spaced.buffer \o value,
       current_line_len |-> spaced.current_line_len + Len(value)]

\* Tuple::as_color: the pixel of a color
as_color(tuple) == <<tuple[1], tuple[2], tuple[3]>>

Canvas_new(width, height) ==
  [width |-> width,
   height |-> height,
   pixels |-> [y \in 1..height |-> [x \in 1..width |-> <<R(0), R(0), R(0)>>]]]

\* write_pixel that takes x for the row and y for the column
write_pixel_swapped(self, x, y, tuple) ==
  IF x < Len(self.pixels) /\ y < Len(self.pixels[x + 1])
    THEN [self EXCEPT !.pixels[x + 1][y + 1] = as_color(tuple)]
    ELSE self

write_pixel(self, x, y, tuple) ==
  IF y < Len(self.pixels) /\ x < Len(self.pixels[y + 1])
    THEN [self EXCEPT !.pixels[y + 1][x + 1] = as_color(tuple)]
    ELSE self


(***************************************************************************)
(* A canvas is made, its pixels are written, and write_to_writer sends it  *)
(* through a PPM writer, one channel value at a time; pc is the (row,      *)
(* column, channel) the loop is at, from 0, with row = height at its end,  *)
(* and <<>> before write_to_writer is called.                              *)
(***************************************************************************)
MaxWidth == 12
MaxHeight == 2

PixelColors ==
  {color(R(1), <<4, 5>>, <<3, 5>>), color(<<3, 2>>, R(0), R(0)),
   color(R(0), <<1, 25>>, <<1, 2>>), color(<<-1, 2>>, R(0), R(1))}

CanvasCalls == {"Canvas::new", "fill", "write_pixel"}

CanvasNewCall ==
  /\ call = "none"
  /\ \E width \in 0..MaxWidth, height \in 0..MaxHeight :
       /\ call' = "Canvas::new"
       /\ args' = <<width, height>>
       /\ canvas' = Canvas_new(width, height)
  /\ ret' = <<>>
  /\ panicked' = FALSE
  /\ UNCHANGED <<sphere, ppm, pc>>

\* write_pixel(x, y, c) for every x and y of the canvas
FillCall ==
  /\ call = "Canvas::new"
  /\ \E c \in PixelColors :
       /\ call' = "fill"
       /\ args' = <<c>>
       /\ canvas' = [canvas EXCEPT !.pixels =
                       [y \in 1..canvas.height |->
                          [x \in 1..canvas.width |-> as_color(c)]]]
  /\ ret' = <<>>
  /\ panicked' = FALSE
  /\ UNCHANGED <<sphere, ppm, pc>>

\* one pixel, on the canvas or just outside it
WritePixelCall ==
  /\ call \in {"Canvas::new", "fill"}
  /\ \E x \in {0, canvas.width}, c \in {color(<<3, 2>>, R(0), R(0))} :
       /\ call' = "write_pixel"
       /\ args' = <<x, 0, c>>
       /\ canvas' = write_pixel(canvas, x, 0, c)
  /\ ret' = <<>>
  /\ panicked' = FALSE
  /\ UNCHANGED <<sphere, ppm, pc>>

\* where the loop of write_to_writer goes after row y
AfterRow(y) == <<y + 1, 0, 0>>

\* write_to_writer: PPM::new
WriteToWriterCall ==
  /\ call \in CanvasCalls
  /\ pc = <<>>
  /\ call' = "write_to_writer"
  /\ args' = <<>>
  /\ ret' = <<>>
  /\ panicked' = FALSE
  /\ ppm' = PPM_new(canvas.width, canvas.height, <<>>)
  /\ pc' = <<0, 0, 0>>
  /\ UNCHANGED <<sphere, canvas>>

\* write_to_writer: output.write(clamp_value(..).as_bytes())
WriteChannel ==
  /\ pc # <<>>
  /\ pc[1] < canvas.height
  /\ pc[2] < canvas.width
  /\ ppm' = PPM_write(ppm, clamp_value(canvas.pixels[pc[1] + 1][pc[2] + 1][pc[3] + 1]))
  /\ pc' = IF pc[3] < 2 THEN <<pc[1], pc[2], pc[3] + 1>> ELSE <<pc[1], pc[2] + 1, 0>>
  /\ UNCHANGED <<call, args, ret, panicked, sphere, canvas>>

\* write_to_writer: output.new_line() after a row
EndRow ==
  /\ pc # <<>>
  /\ pc[1] < canvas.height
  /\ pc[2] = canvas.width
  /\ ppm' = PPM_new_line(ppm)
  /\ pc' = AfterRow(pc[1])
  /\ UNCHANGED <<call, args, ret, panicked, sphere, canvas>>

NextCanvas ==
  \/ CanvasNewCall
  \/ FillCall
  \/ WritePixelCall
  \/ WriteToWriterCall
  \/ WriteChannel
  \/ EndRow

SpecCanvas == Init /\ [][NextCanvas]_vars

\* the positions of the newlines of a text, and the position before it
LineEnds(text) == {0} \cup {i \in 1..Len(text) : text[i] = "\n"}

\* the length of the longest line of a text, the unfinished last line too
LongestLine(text) ==
  LET ends == LineEnds(text) \cup {Len(text) + 1}
      Following(i) == CHOOSE j \in ends : j > i /\ \A k \in ends : k > i => j <= k
  IN  CHOOSE n \in 0..Len(text) :
        /\ \A i \in LineEnds(text) : Following(i) - i - 1 <= n
        /\ \E i \in LineEnds(text) : Following(i) - i - 1 = n

DigitChars == {Digit(k) : k \in 0..9}

\* the whole canvas has been written
Done == pc # <<>> /\ pc[1] = canvas.height

\* the header or a row has just been ended
AtRowEnd == pc # <<>> /\ pc[2] = 0 /\ pc[3] = 0

\* the step appends one whole value of 1 to 3 digits to the text, after a
\* space if the line goes on and after a newline or nothing if it starts
AppendsWholeValue ==
  \E value \in UNION {[1..n -> DigitChars] : n \in 1..3} :
    \/ /\ ppm'.buffer = ppm.buffer \o <<" ">> \o value
       /\ ppm.buffer[Len(ppm.buffer)] # "\n"
    \/ ppm'.buffer = ppm.buffer \o <<"\n">> \o value
    \/ /\ ppm'.buffer = ppm.buffer \o value
       /\ ppm.buffer[Len(ppm.buffer)] = "\n"

\* C19: whatever the size of the canvas and its pixels, no line of the
\* text written so far is longer than 70 characters, the text ends with a
\* newline after each row and at the end, and every write of a channel
\* appends its value whole, within one line.
PPMLinesFit ==
  /\ [](pc # <<>> =>
          /\ LongestLine(ppm.buffer) <= 70
          /\ AtRowEnd => ppm.buffer[Len(ppm.buffer)] = "\n")
  /\ [][(pc # <<>> /\ pc[1] < canvas.height /\ pc[2] < canvas.width)
          => AppendsWholeValue]_vars

\* a canvas of rows too long for one line has been written out
PPMWitness ==
  /\ Done
  /\ canvas.width = 10
  /\ canvas.height = 2
  /\ canvas.pixels[1][1] = <<R(1), <<4, 5>>, <<3, 5>>>>
  /\ LongestLine(ppm.buffer) = 67
  /\ Cardinality(LineEnds(ppm.buffer)) = 8


(***************************************************************************)
(* shear! and shearing are called with the same six arguments.             *)
(***************************************************************************)
\* assert_eq!(shear!(a1, a2, a3, a4, a5, a6), shearing(a1, a2, a3, a4, a5, a6))
ShearBothCall ==
  /\ call = "none"
  /\ \E a1 \in Params, a2 \in Params, a3 \in Params, a4 \in Params,
        a5 \in Params, a6 \in Params :
       /\ call' = "shear! and shearing"
       /\ args' = <<a1, a2, a3, a4, a5, a6>>
       /\ ret' = <<shear(R(a1), R(a2), R(a3), R(a4), R(a5), R(a6)),
                   shearing(R(a1), R(a2), R(a3), R(a4), R(a5), R(a6))>>
       /\ panicked' = FALSE
       /\ UNCHANGED objects

NextShear == ShearBothCall

SpecShear == Init /\ [][NextShear]_vars

\* C20: shear!(a1, a2, a3, a4, a5, a6) is the matrix
\* shearing(a1, a2, a3, a4, a5, a6) for all six arguments.
ShearMacroIsShearing ==
  call = "shear! and shearing" => ret[1] = ret[2]


(***************************************************************************)
(* One pixel of main's loop, with the sphere changed while the             *)
(* intersections are held: the sphere is set up, a ray is intersected with *)
(* it, then the original sphere gets a new transform or a new material     *)
(* color, and the hit's object is asked for a normal and for a color.      *)
(* While the intersections are held they stay in ret.                      *)
(***************************************************************************)
SceneRays ==
  {Ray_new(point(R(0), R(y), R(z)), vector(R(0), R(0), R(1))) :
     y \in {0, 1}, z \in {-MaxD, 0}}

ScenePoints ==
  {point(R(0), R(0), R(-1)), point(R(0), R(1), R(0)), point(R(1), R(0), R(0))}

SceneLights ==
  {PointLight_new(point(R(0), R(0), R(z)), color(R(1), R(1), R(1))) : z \in {-10, 10}}

HeldCalls == {"intersect; set_transform", "intersect; material.color ="}

\* hit.object of main.rs, the intersections having a hit
hit_object(xs) == xs[hit(xs)[1]].object

\* let intersections = sphere.intersect(&ray)
RenderIntersectCall ==
  /\ call \in SetupCalls
  /\ LET inv == inverse(sphere.transform)
     IN  \E ray \in SceneRays :
           /\ HasRationalRoots(sphere, inv, ray)
           /\ call' = "intersect"
           /\ args' = <<ray>>
           /\ ret' = Sphere_intersect(sphere, ray)
           /\ panicked' = (ret' = Panic)
           /\ UNCHANGED objects

\* sphere.set_transform(m) while the intersections are held; args keeps the
\* sphere the call is made on
SetTransformHeld ==
  /\ call = "intersect"
  /\ ~panicked
  /\ hit(ret[1]) # None
  /\ \E m \in SphereTransforms :
       /\ call' = "intersect; set_transform"
       /\ args' = <<sphere, m>>
       /\ sphere' = set_transform(sphere, m)
       /\ UNCHANGED <<ret, panicked, canvas, ppm, pc>>

\* sphere.material.color = c while the intersections are held
SetMaterialColorHeld ==
  /\ call = "intersect"
  /\ ~panicked
  /\ hit(ret[1]) # None
  /\ \E c \in MaterialColors \cup {color(R(1), R(0), R(0))} :
       /\ call' = "intersect; material.color ="
       /\ args' = <<sphere, c>>
       /\ sphere' = [sphere EXCEPT !.material.color = c]
       /\ UNCHANGED <<ret, panicked, canvas, ppm, pc>>

\* hit.object.normal_at(&point)
HitNormalAtCall ==
  /\ call \in HeldCalls
  /\ LET object == hit_object(ret[1])
         inv == inverse(object.transform)
     IN  \E p \in ScenePoints :
           /\ HasRationalNormal(object, inv, p)
           /\ call' = "hit.object.normal_at"
           /\ args' = <<object, p>>
           /\ ret' = normal_at(object, p)
           /\ panicked' = (ret' = Panic)
           /\ UNCHANGED objects

\* hit.object.material.lighting(&light, &point, &eye, &normal)
HitLightingCall ==
  /\ call \in HeldCalls
  /\ LET material == hit_object(ret[1]).material
         position == point(R(0), R(0), R(0))
         eyev == vector(R(0), R(0), R(-1))
         normalv == vector(R(0), R(0), R(-1))
     IN  \E light \in SceneLights :
           /\ HasRationalLighting(material, light, position, eyev, normalv)
           /\ call' = "hit.object.material.lighting"
           /\ args' = <<material, light, position, eyev, normalv>>
           /\ ret' = lighting(material, light, position, eyev, normalv)
           /\ panicked' = FALSE
           /\ UNCHANGED objects

NextScene ==
  \/ SetTransformCall
  \/ SetMaterialColor
  \/ RenderIntersectCall
  \/ SetTransformHeld
  \/ SetMaterialColorHeld
  \/ HitNormalAtCall
  \/ HitLightingCall

SpecScene == Init /\ [][NextScene]_vars

\* set_transform gives the sphere the matrix m and changes nothing else of it
OnlyTransformChanges(m) ==
  /\ sphere'.transform = m
  /\ sphere'.origin = sphere.origin
  /\ sphere'.radius = sphere.radius
  /\ sphere'.material = sphere.material

\* the intersections in ret are the ones intersect returned: the same t
\* values, each with the sphere as it was before the change
HeldIntersectionsKept ==
  /\ ret' = ret
  /\ \A i \in 1..Len(ret[1]) : ret'[1][i].object = sphere

\* C21: every Intersection of Sphere::intersect holds a copy of the sphere
\* as it was when intersect was called. A set_transform or a new material
\* color applied to the original sphere afterwards changes neither the t
\* values nor the object of the intersections, so hit().object.normal_at
\* and hit().object.material.lighting give what the sphere of the intersect
\* call gives; and set_transform changes the transform field only, leaving
\* origin, radius and material as they were.
IntersectionsHoldACopy ==
  [][/\ call' = "set_transform" => OnlyTransformChanges(args'[1])
     /\ call' = "intersect; set_transform" =>
          /\ OnlyTransformChanges(args'[2])
          /\ HeldIntersectionsKept
     /\ call' = "intersect; material.color =" =>
          /\ sphere' = [sphere EXCEPT !.material.color = args'[2]]
          /\ HeldIntersectionsKept
     /\ call' = "hit.object.normal_at" =>
          /\ ret' = normal_at(args[1], args'[2])
          /\ args'[1] = args[1]
     /\ call' = "hit.object.material.lighting" =>
          /\ ret' = lighting(args[1].material, args'[2], args'[3], args'[4], args'[5])
          /\ args'[1] = args[1].material]_vars

\* a normal was taken of the object of a hit after the original sphere got
\* a singular transform: the sphere itself has no normal any more, the
\* object of the hit has the one of its own transform
HeldCopyWitness ==
  /\ call = "hit.object.normal_at"
  /\ ~panicked
  /\ args[1].transform # identity
  /\ args[1].material # Material_new
  /\ inverse(sphere.transform) = None
  /\ normal_at(sphere, args[2]) = Panic


(***************************************************************************)
(* A small canvas is made and pixels are written to it, on the canvas and  *)
(* beside it, one write_pixel call after the other.                        *)
(***************************************************************************)
MaxCols == 2
MaxRows == 2
\* the most pixels a canvas is made with
MaxPixels == 4

WrittenColors == {color(<<3, 2>>, R(0), R(0)), color(R(0), <<1, 2>>, R(0))}

\* Canvas::new(width, height)
SmallCanvasNewCall ==
  /\ call = "none"
  /\ \E width \in 0..MaxCols, height \in 0..MaxRows :
       /\ width * height <= MaxPixels
       /\ call' = "Canvas::new"
       /\ args' = <<width, height>>
       /\ canvas' = Canvas_new(width, height)
  /\ ret' = <<>>
  /\ panicked' = FALSE
  /\ UNCHANGED <<sphere, ppm, pc>>

\* canvas.write_pixel(x, y, &c), x up to one column and y up to one row
\* past the canvas
WriteAnyPixelCall ==
  /\ call \in {"Canvas::new", "write_pixel"}
  /\ \E x \in 0..(canvas.width + 1), y \in 0..(canvas.height + 1), c \in WrittenColors :
       /\ call' = "write_pixel"
       /\ args' = <<x, y, c>>
       /\ canvas' = write_pixel(canvas, x, y, c)
  /\ ret' = <<>>
  /\ panicked' = FALSE
  /\ UNCHANGED <<sphere, ppm, pc>>

NextPixels ==
  \/ SmallCanvasNewCall
  \/ WriteAnyPixelCall

SpecPixels == Init /\ [][NextPixels]_vars

Black == <<R(0), R(0), R(0)>>

\* the canvas has height rows of width pixels
WellShaped(c) ==
  /\ Len(c.pixels) = c.height
  /\ \A j \in 1..c.height : Len(c.pixels[j]) = c.width

\* the pixel at column x of row y, both counted from 0
PixelAt(c, x, y) == c.pixels[y + 1][x + 1]

\* C22: write_pixel(x, y, color) with x >= width or y >= height leaves
\* every pixel of the canvas as it was and does not fail; with x < width
\* and y < height it replaces the pixel at column x of row y, and no other
\* pixel, and leaves width and height as they were; so the pixels that were
\* never written are black, as Canvas::new made them.
WritePixelChangesOnePixel ==
  /\ [](call = "Canvas::new" =>
          /\ WellShaped(canvas)
          /\ \A i \in 0..(canvas.width - 1), j \in 0..(canvas.height - 1) :
               PixelAt(canvas, i, j) = Black)
  /\ [][call' = "write_pixel" =>
          LET x == args'[1]
              y == args'[2]
          IN  /\ ~panicked'
              /\ canvas'.width = canvas.width
              /\ canvas'.height = canvas.height
              /\ WellShaped(canvas')
              /\ (x >= canvas.width \/ y >= canvas.height) => canvas' = canvas
              /\ \A i \in 0..(canvas.width - 1), j \in 0..(canvas.height - 1) :
                   /\ (i = x /\ j = y) => PixelAt(canvas', i, j) = as_color(args'[3])
                   /\ ~(i = x /\ j = y) => PixelAt(canvas', i, j) = PixelAt(canvas, i, j)
                   /\ (~(i = x /\ j = y) /\ call = "Canvas::new") =>
                        PixelAt(canvas', i, j) = Black]_vars

\* a pixel of the second row was given another color, the pixel beside it
\* keeps the color of an earlier write and a pixel of the first row was
\* never written
WritePixelWitness ==
  /\ call = "write_pixel"
  /\ canvas.width = MaxCols
  /\ canvas.height = MaxRows
  /\ args[1] = 0
  /\ args[2] = 1
  /\ PixelAt(canvas, 0, 1) = as_color(args[3])
  /\ PixelAt(canvas, 1, 1) \notin {Black, as_color(args[3])}
  /\ PixelAt(canvas, 1, 0) = Black

====
